---- MODULE Spec2Model ----
(***************************************************************************)
(* Model of gol/distributor.rs: the distributor thread of the parallel     *)
(* Game of Life engine, the worker threads it spawns every turn, and the   *)
(* collaborators at the other end of its channels (the io thread, the      *)
(* observer of the events channel).                                        *)
(*                                                                         *)
(* One step of a thread is one operation on shared state: a channel send   *)
(* or receive, a spawn, a join, or one critical section of one of the two  *)
(* grid mutexes.  Thread-local computation between two such operations is  *)
(* part of the step that follows or precedes it.                           *)
(***************************************************************************)
EXTENDS Integers, Sequences, FiniteSets

(* Bounds of the model: the grids checked are all width x height grids     *)
(* with width * height <= MaxCells, run on 1 .. MaxThreads threads for no   *)
(* turn or for MaxTurns turns (up to its last TurnComplete a run of fewer   *)
(* turns is the beginning of a run of MaxTurns).                            *)
MaxCells == 6
MaxThreads == 2
MaxTurns == 2

(* Bounds of the specification that runs the row partition alone.          *)
MaxPartHeight == 9
MaxPartThreads == 11

(* The pattern runs: grids of up to MaxPatSide x MaxPatSide cells holding   *)
(* one still or oscillating figure, run for PatTurns turns.                 *)
MaxPatSide == 4
MaxPatThreads == 2
PatTurns == 2

(* The runs with every lock acquisition a step of its own.                  *)
MaxLockCells == 3
MaxLockThreads == 2
LockTurns == 2

VARIABLES
    width, height, turns, threads,  \* params (distributor.rs 26-27, 44-45)
    world,          \* Arc<Mutex<Vec<CellValue>>> of line 29
    next_world,     \* Arc<Mutex<Vec<CellValue>>> of line 59
    turn,           \* loop variable of line 57 (0 before the loop)
    thread_id,      \* loop variable of line 61
    handles,        \* Vec<JoinHandle> of line 58, with each thread's state
    joined,         \* number of handles the loop of line 106 has joined
    flipped_cells,  \* Vec<CellCoord> of line 110
    loaded,         \* cells received by the loops of lines 32-42
    pc,             \* the distributor's position
    result,         \* "running", or the Result the distributor returned
    io_idle,        \* the io_idle channel as the io thread leaves it
    log,            \* history: every send and receive the distributor tried
    pre             \* history: world as it was when the turn began

vars == <<width, height, turns, threads, world, next_world, turn, thread_id,
          handles, joined, flipped_cells, loaded, pc, result, io_idle, log, pre>>

CellValue == {"Alive", "Dead"}

total_cells == width * height

Indices == 0 .. (total_cells - 1)

Min(a, b) == IF a < b THEN a ELSE b

CellCoord(x, y) == [x |-> x, y |-> y]

(* vec![CellValue::Dead; total_cells] *)
DeadGrid == [i \in Indices |-> "Dead"]

----------------------------------------------------------------------------
(* The partition of the rows (lines 48-49, 67-74).                          *)

rows_per_thread == height \div threads

extra_rows == height % threads

(* start_row without the rows the earlier threads took from the remainder. *)
start_row_NoRemainder(id) == id * rows_per_thread

start_row(id) == id * rows_per_thread + Min(id, extra_rows)

(* end_row without the extra row of lines 69-71.                            *)
end_row_NoExtra(id) ==
    LET e == start_row(id) + rows_per_thread
    IN  IF e > height THEN height ELSE e

(* end_row with every thread running to the last row.                       *)
end_row_ToHeight(id) == height

end_row(id) ==
    LET e == start_row(id) + rows_per_thread + (IF id < extra_rows THEN 1 ELSE 0)
    IN  IF e > height THEN height ELSE e

----------------------------------------------------------------------------
(* count_alive_neighbors (lines 169-193) and the rule (lines 83-98).        *)

(* The (dx, dy) pairs in the order of the two loops, (0, 0) skipped.        *)
Offsets ==
    << <<-1, -1>>, <<0, -1>>, <<1, -1>>,
       <<-1,  0>>,            <<1,  0>>,
       <<-1,  1>>, <<0,  1>>, <<1,  1>> >>

(* Line 184 with the right-hand test written against width - 1.             *)
InGrid_NarrowByOne(nx, ny) == nx >= 0 /\ nx < width - 1 /\ ny >= 0 /\ ny < height

(* The condition of line 184.                                               *)
InGrid(nx, ny) == nx >= 0 /\ nx < width /\ ny >= 0 /\ ny < height

(* The first k' >= k whose neighbour of (x, y) passes line 184; 9 if none.  *)
RECURSIVE NextNeighbor(_, _, _)
NextNeighbor(x, y, k) ==
    IF k > 8 THEN 9
    ELSE IF InGrid(x + Offsets[k][1], y + Offsets[k][2]) THEN k
    ELSE NextNeighbor(x, y, k + 1)

(* Line 185 for the k-th offset.                                            *)
NeighborIndex(x, y, k) == (y + Offsets[k][2]) * width + (x + Offsets[k][1])

(* The whole of count_alive_neighbors run against an unchanging grid w.     *)
RECURSIVE CountFrom(_, _, _, _)
CountFrom(w, x, y, k) ==
    LET n == NextNeighbor(x, y, k)
    IN  IF n > 8 THEN 0
        ELSE (IF w[NeighborIndex(x, y, n)] = "Alive" THEN 1 ELSE 0)
             + CountFrom(w, x, y, n + 1)

count_alive_neighbors(w, x, y) == CountFrom(w, x, y, 1)

(* new_cell without the upper limit of line 85.                             *)
new_cell_NoOvercrowding(cell, alive_neighbors) ==
    IF cell = "Alive"
    THEN (IF alive_neighbors >= 2 THEN "Alive" ELSE "Dead")
    ELSE (IF alive_neighbors = 3 THEN "Alive" ELSE "Dead")

(* new_cell with the survival test of line 85 written as == 3.              *)
new_cell_SurviveOnThree(cell, alive_neighbors) ==
    IF cell = "Alive"
    THEN (IF alive_neighbors = 3 THEN "Alive" ELSE "Dead")
    ELSE (IF alive_neighbors = 3 THEN "Alive" ELSE "Dead")

(* new_cell without the lower limit of line 85.                             *)
new_cell_NoUnderpopulation(cell, alive_neighbors) ==
    IF cell = "Alive"
    THEN (IF alive_neighbors <= 3 THEN "Alive" ELSE "Dead")
    ELSE (IF alive_neighbors = 3 THEN "Alive" ELSE "Dead")

(* new_cell with the birth test of line 92 written as <= 3.                  *)
new_cell_BirthUpToThree(cell, alive_neighbors) ==
    IF cell = "Alive"
    THEN (IF alive_neighbors = 2 \/ alive_neighbors = 3 THEN "Alive" ELSE "Dead")
    ELSE (IF alive_neighbors <= 3 THEN "Alive" ELSE "Dead")

new_cell(cell, alive_neighbors) ==
    IF cell = "Alive"
    THEN (IF alive_neighbors = 2 \/ alive_neighbors = 3 THEN "Alive" ELSE "Dead")
    ELSE (IF alive_neighbors = 3 THEN "Alive" ELSE "Dead")

----------------------------------------------------------------------------
(* The history of sends and receives.                                       *)

Entry(op, t, cs, st, ok) ==
    [op |-> op, turn |-> t, cells |-> cs, state |-> st, ok |-> ok]

(* The error `?` returns for the failed operation e.  A failed send gives   *)
(* flume's SendError, which carries the message that was not sent (the      *)
(* command, or the event with its fields); a failed recv gives flume's      *)
(* RecvError, which carries nothing; line 37 alone attaches a context.      *)
NoMessage == [op |-> "", turn |-> 0, cells |-> << >>, state |-> ""]

ErrorValue(e) ==
    IF e.op \in {"recv_input", "recv_idle"}
    THEN (IF e.state = "None"
          THEN [kind |-> "Context", context |-> "The input channel is None",
                message |-> NoMessage]
          ELSE [kind |-> "RecvError", context |-> "", message |-> NoMessage])
    ELSE [kind |-> "SendError", context |-> "",
          message |-> IF e.op \in {"IoInput", "IoCheckIdle"}
                      THEN [NoMessage EXCEPT !.op = e.op]
                      ELSE [op |-> e.op, turn |-> e.turn, cells |-> e.cells,
                            state |-> e.state]]

(* `?` on a failed send or receive: the distributor returns Err.            *)
Fail(e) ==
    /\ log' = Append(log, e)
    /\ result' = "Err"
    /\ pc' = "done"

(* holds: the grid locks whose guard the thread has alive.  wrote and turn  *)
(* are history: the indices of next_world the thread has stored to, in the  *)
(* order of its stores, and the turn it was spawned in.                     *)
NoThread == [st |-> "none", start_row |-> 0, end_row |-> 0, x |-> 0, y |-> 0,
             at |-> "cell", k |-> 0, count |-> 0, cell |-> "Dead",
             wrote |-> << >>, turn |-> 0, holds |-> {}]

Dims == {d \in (1 .. MaxCells) \X (1 .. MaxCells) : d[1] * d[2] <= MaxCells}

Init ==
    /\ \E d \in Dims : width = d[1] /\ height = d[2]
    /\ turns \in {0, MaxTurns}
    /\ threads \in 1 .. MaxThreads
    /\ world = DeadGrid
    /\ next_world = DeadGrid
    /\ turn = 0
    /\ thread_id = 0
    /\ handles = [i \in 0 .. (threads - 1) |-> NoThread]
    /\ joined = 0
    /\ flipped_cells = << >>
    /\ loaded = 0
    /\ pc = "send_input"
    /\ result = "running"
    /\ io_idle = "empty"
    /\ log = << >>
    /\ pre = DeadGrid

params == <<width, height, turns, threads>>

----------------------------------------------------------------------------
(* Loading the grid (lines 31-42).                                          *)

(* io_command.send(IoCommand::IoInput)?  (line 31)                          *)
SendIoInput ==
    /\ pc = "send_input"
    /\ \/ /\ log' = Append(log, Entry("IoInput", 0, << >>, "", TRUE))
          /\ pc' = "read"
          /\ UNCHANGED result
       \/ Fail(Entry("IoInput", 0, << >>, "", FALSE))
    /\ UNCHANGED <<params, world, next_world, turn, thread_id, handles, joined,
                   flipped_cells, loaded, io_idle, pre>>

(* ReadCell with the error of recv() dropped: the cell stays Dead.          *)
ReadCell_IgnoreError ==
    /\ pc = "read"
    /\ \/ \E cell \in CellValue :
            /\ world' = [world EXCEPT ![loaded] = cell]
            /\ log' = Append(log, Entry("recv_input", 0, << >>, cell, TRUE))
       \/ /\ log' = Append(log, Entry("recv_input", 0, << >>, "", FALSE))
          /\ UNCHANGED world
    /\ loaded' = loaded + 1
    /\ pc' = IF loaded + 1 = total_cells THEN "executing" ELSE "read"
    /\ UNCHANGED <<params, next_world, turn, thread_id, handles, joined,
                   flipped_cells, result, io_idle, pre>>

(* One pass of the loops of lines 32-42: recv()? and the store of line 40,  *)
(* or the `?` of line 37 when channels.io_input is None (it is then None at *)
(* the first pass).                                                         *)
ReadCell ==
    /\ pc = "read"
    /\ \/ \E cell \in CellValue :
            /\ world' = [world EXCEPT ![loaded] = cell]
            /\ loaded' = loaded + 1
            /\ log' = Append(log, Entry("recv_input", 0, << >>, cell, TRUE))
            /\ pc' = IF loaded + 1 = total_cells THEN "executing" ELSE "read"
            /\ UNCHANGED result
       \/ /\ Fail(Entry("recv_input", 0, << >>, "", FALSE))
          /\ UNCHANGED <<world, loaded>>
       \/ /\ loaded = 0
          /\ Fail(Entry("recv_input", 0, << >>, "None", FALSE))
          /\ UNCHANGED <<world, loaded>>
    /\ UNCHANGED <<params, next_world, turn, thread_id, handles, joined,
                   flipped_cells, io_idle, pre>>

(* events.send(StateChange { 0, Executing })?  (lines 51-55)                *)
SendExecuting ==
    /\ pc = "executing"
    /\ \/ /\ log' = Append(log, Entry("StateChange", 0, << >>, "Executing", TRUE))
          /\ pc' = "turn_loop"
          /\ UNCHANGED result
       \/ Fail(Entry("StateChange", 0, << >>, "Executing", FALSE))
    /\ UNCHANGED <<params, world, next_world, turn, thread_id, handles, joined,
                   flipped_cells, loaded, io_idle, pre>>

----------------------------------------------------------------------------
(* One turn (lines 57-133).                                                 *)

(* TurnLoop over 0..=turns: one turn more than asked.                       *)
TurnLoop_FromZero ==
    /\ pc = "turn_loop"
    /\ IF turn <= turns
       THEN /\ turn' = turn + 1
            /\ next_world' = DeadGrid
            /\ handles' = [i \in 0 .. (threads - 1) |-> NoThread]
            /\ thread_id' = 0
            /\ joined' = 0
            /\ flipped_cells' = << >>
            /\ pre' = world
            /\ pc' = "spawn"
       ELSE /\ pc' = "final"
            /\ UNCHANGED <<turn, next_world, handles, thread_id, joined,
                           flipped_cells, pre>>
    /\ UNCHANGED <<params, world, loaded, result, io_idle, log>>

(* `for turn in 1..=turns` (line 57) and lines 58-59 of the body.           *)
TurnLoop ==
    /\ pc = "turn_loop"
    /\ IF turn < turns
       THEN /\ turn' = turn + 1
            /\ next_world' = DeadGrid
            /\ handles' = [i \in 0 .. (threads - 1) |-> NoThread]
            /\ thread_id' = 0
            /\ joined' = 0
            /\ flipped_cells' = << >>
            /\ pre' = world
            /\ pc' = "spawn"
       ELSE /\ pc' = "final"
            /\ UNCHANGED <<turn, next_world, handles, thread_id, joined,
                           flipped_cells, pre>>
    /\ UNCHANGED <<params, world, loaded, result, io_idle, log>>

(* The thread as thread::spawn starts it (lines 67-77): its row range and   *)
(* the first cell of it.                                                    *)
Spawned(id) ==
    [NoThread EXCEPT !.st = "run", !.turn = turn, !.start_row = start_row(id),
                     !.end_row = end_row(id), !.y = start_row(id)]

(* One pass of `for thread_id in 0..threads` (lines 61-104).                *)
Spawn ==
    /\ pc = "spawn"
    /\ handles' = [handles EXCEPT ![thread_id] = Spawned(thread_id)]
    /\ thread_id' = thread_id + 1
    /\ pc' = IF thread_id + 1 = threads THEN "join" ELSE "spawn"
    /\ UNCHANGED <<params, world, next_world, turn, joined, flipped_cells,
                   loaded, result, io_idle, log, pre>>

(* world_clone.lock().unwrap()[index]  (line 80), then count_alive_neighbors *)
(* up to its first lock (lines 176-185).                                    *)
(* The thread is at position `from` with the guards `held` alive; the       *)
(* guard of line 80 is a temporary, dropped when the statement ends.        *)
WorkerReadCellAt(id, from, held) ==
    LET t == handles[id]
        n == NextNeighbor(t.x, t.y, 1)
    IN  /\ t.st = "run"
        /\ t.at = from
        /\ t.holds = held
        /\ t.y < t.end_row
        /\ handles' = [handles EXCEPT ![id] =
                [t EXCEPT !.cell = world[t.y * width + t.x],
                          !.count = 0,
                          !.k = n,
                          !.at = IF n > 8 THEN "write" ELSE "neighbor",
                          !.holds = {}]]
        /\ UNCHANGED <<params, world, next_world, turn, thread_id, joined,
                       flipped_cells, loaded, pc, result, io_idle, log, pre>>

(* Line 80 as one step: the lock taken, the cell read, the guard dropped.   *)
WorkerReadCell(id) == WorkerReadCellAt(id, "cell", {})

(* world.lock().unwrap()[index] == Alive (line 186) for one neighbour, and  *)
(* the loops of lines 177-185 up to the next lock.                          *)
(* WorkerReadNeighborAt with the guard of line 186 bound to a name and so   *)
(* alive to the end of the closure's block.                                 *)
WorkerReadNeighborAt_GuardKept(id, from, held) ==
    LET t == handles[id]
        n == NextNeighbor(t.x, t.y, t.k + 1)
    IN  /\ t.st = "run"
        /\ t.at = from
        /\ t.holds = held
        /\ handles' = [handles EXCEPT ![id] =
                [t EXCEPT !.count = IF world[NeighborIndex(t.x, t.y, t.k)] = "Alive"
                                    THEN t.count + 1 ELSE t.count,
                          !.k = n,
                          !.at = IF n > 8 THEN "write" ELSE "neighbor"]]
        /\ UNCHANGED <<params, world, next_world, turn, thread_id, joined,
                       flipped_cells, loaded, pc, result, io_idle, log, pre>>

(* The guard of line 186 is a temporary of the `if` condition, dropped      *)
(* before the block of line 187.                                            *)
WorkerReadNeighborAt(id, from, held) ==
    LET t == handles[id]
        n == NextNeighbor(t.x, t.y, t.k + 1)
    IN  /\ t.st = "run"
        /\ t.at = from
        /\ t.holds = held
        /\ handles' = [handles EXCEPT ![id] =
                [t EXCEPT !.count = IF world[NeighborIndex(t.x, t.y, t.k)] = "Alive"
                                    THEN t.count + 1 ELSE t.count,
                          !.k = n,
                          !.at = IF n > 8 THEN "write" ELSE "neighbor",
                          !.holds = {}]]
        /\ UNCHANGED <<params, world, next_world, turn, thread_id, joined,
                       flipped_cells, loaded, pc, result, io_idle, log, pre>>

(* Line 186 as one step.                                                    *)
WorkerReadNeighbor(id) == WorkerReadNeighborAt(id, "neighbor", {})

(* WorkerWrite with the store of line 99 made to world instead.             *)
WorkerWrite_InPlace(id) ==
    LET t == handles[id]
        last == t.x + 1 = width
    IN  /\ t.st = "run"
        /\ t.at = "write"
        /\ world' = [world EXCEPT ![t.y * width + t.x] =
                         new_cell(t.cell, t.count)]
        /\ handles' = [handles EXCEPT ![id] =
                [t EXCEPT !.x = IF last THEN 0 ELSE t.x + 1,
                          !.y = IF last THEN t.y + 1 ELSE t.y,
                          !.at = "cell", !.k = 0, !.count = 0, !.cell = "Dead",
                          !.wrote = Append(t.wrote, t.y * width + t.x)]]
        /\ UNCHANGED <<params, next_world, turn, thread_id, joined, flipped_cells,
                       loaded, pc, result, io_idle, log, pre>>

(* next_world_clone.lock().unwrap()[index] = new_cell (lines 83-99), and    *)
(* the step of the loops of lines 77-78.                                    *)
WorkerWriteAt(id, from, held) ==
    LET t == handles[id]
        last == t.x + 1 = width
    IN  /\ t.st = "run"
        /\ t.at = from
        /\ t.holds = held
        /\ next_world' = [next_world EXCEPT ![t.y * width + t.x] =
                              new_cell(t.cell, t.count)]
        /\ handles' = [handles EXCEPT ![id] =
                [t EXCEPT !.x = IF last THEN 0 ELSE t.x + 1,
                          !.y = IF last THEN t.y + 1 ELSE t.y,
                          !.at = "cell", !.k = 0, !.count = 0, !.cell = "Dead",
                          !.wrote = Append(t.wrote, t.y * width + t.x),
                          !.holds = {}]]
        /\ UNCHANGED <<params, world, turn, thread_id, joined, flipped_cells,
                       loaded, pc, result, io_idle, log, pre>>

(* Line 99 as one step.                                                     *)
WorkerWrite(id) == WorkerWriteAt(id, "write", {})

(* The closure of line 76 returns: the loop of line 77 is exhausted.        *)
WorkerExit(id) ==
    LET t == handles[id]
    IN  /\ t.st = "run"
        /\ t.at = "cell"
        /\ t.y >= t.end_row
        /\ handles' = [handles EXCEPT ![id] = [t EXCEPT !.st = "done"]]
        /\ UNCHANGED <<params, world, next_world, turn, thread_id, joined,
                       flipped_cells, loaded, pc, result, io_idle, log, pre>>

Worker(id) ==
    \/ WorkerReadCell(id)
    \/ WorkerReadNeighbor(id)
    \/ WorkerWrite(id)
    \/ WorkerExit(id)

(* Join returning at once, whether the thread is done or not.               *)
Join_NoWait ==
    /\ pc = "join"
    /\ handles' = [handles EXCEPT ![joined] =
                      [@ EXCEPT !.st = IF @ = "done" THEN "joined" ELSE @]]
    /\ joined' = joined + 1
    /\ pc' = IF joined + 1 = threads THEN "diff" ELSE "join"
    /\ UNCHANGED <<params, world, next_world, turn, thread_id, flipped_cells,
                   loaded, result, io_idle, log, pre>>

(* handle.join().unwrap() (lines 106-108): blocks until the thread is done. *)
Join ==
    /\ pc = "join"
    /\ handles[joined].st = "done"
    /\ handles' = [handles EXCEPT ![joined] = [@ EXCEPT !.st = "joined"]]
    /\ joined' = joined + 1
    /\ pc' = IF joined + 1 = threads THEN "diff" ELSE "join"
    /\ UNCHANGED <<params, world, next_world, turn, thread_id, flipped_cells,
                   loaded, result, io_idle, log, pre>>

(* FlippedFrom with the coordinates of line 118 exchanged.                  *)
RECURSIVE FlippedFrom_Transposed(_, _, _)
FlippedFrom_Transposed(cur, new, index) ==
    IF index >= total_cells THEN << >>
    ELSE (IF cur[index] # new[index]
          THEN << CellCoord(index \div width, index % width) >>
          ELSE << >>) \o FlippedFrom_Transposed(cur, new, index + 1)

(* The indices the loops of lines 114-122 push, in their order.             *)
RECURSIVE FlippedFrom(_, _, _)
FlippedFrom(cur, new, index) ==
    IF index >= total_cells THEN << >>
    ELSE (IF cur[index] # new[index]
          THEN << CellCoord(index % width, index \div width) >>
          ELSE << >>) \o FlippedFrom(cur, new, index + 1)

(* The grid the assignments of line 119 leave in current_world.             *)
Merged(cur, new) ==
    [index \in Indices |-> IF cur[index] # new[index] THEN new[index] ELSE cur[index]]

(* Diff without the test of line 125.                                       *)
Diff_AlwaysFlipped ==
    /\ pc = "diff"
    /\ flipped_cells' = FlippedFrom(world, next_world, 0)
    /\ world' = Merged(world, next_world)
    /\ pc' = "send_flipped"
    /\ UNCHANGED <<params, next_world, turn, thread_id, handles, joined,
                   loaded, result, io_idle, log, pre>>

(* Lines 114-123: the loops of the diff, and the two guards dropped at the  *)
(* end of the block.                                                        *)
DiffAt(from) ==
    /\ pc = from
    /\ flipped_cells' = FlippedFrom(world, next_world, 0)
    /\ world' = Merged(world, next_world)
    /\ pc' = IF FlippedFrom(world, next_world, 0) # << >>
             THEN "send_flipped" ELSE "send_turn"
    /\ UNCHANGED <<params, next_world, turn, thread_id, handles, joined,
                   loaded, result, io_idle, log, pre>>

(* Lines 110-123 as one step, under both locks.                             *)
Diff == DiffAt("diff")

(* SendCellsFlipped with the error of send() dropped.                       *)
SendCellsFlipped_IgnoreError ==
    /\ pc = "send_flipped"
    /\ \E ok \in BOOLEAN :
          log' = Append(log, Entry("CellsFlipped", turn, flipped_cells, "", ok))
    /\ pc' = "send_turn"
    /\ UNCHANGED <<params, world, next_world, turn, thread_id, handles, joined,
                   flipped_cells, loaded, result, io_idle, pre>>

(* events.send(CellsFlipped { turn, flipped_cells })?  (lines 125-130)      *)
SendCellsFlipped ==
    /\ pc = "send_flipped"
    /\ \/ /\ log' = Append(log, Entry("CellsFlipped", turn, flipped_cells, "", TRUE))
          /\ pc' = "send_turn"
          /\ UNCHANGED result
       \/ Fail(Entry("CellsFlipped", turn, flipped_cells, "", FALSE))
    /\ UNCHANGED <<params, world, next_world, turn, thread_id, handles, joined,
                   flipped_cells, loaded, io_idle, pre>>

(* SendTurnComplete numbering the turns from 0.                             *)
SendTurnComplete_FromZero ==
    /\ pc = "send_turn"
    /\ \/ /\ log' = Append(log, Entry("TurnComplete", turn - 1, << >>, "", TRUE))
          /\ pc' = "turn_loop"
          /\ UNCHANGED result
       \/ Fail(Entry("TurnComplete", turn - 1, << >>, "", FALSE))
    /\ UNCHANGED <<params, world, next_world, turn, thread_id, handles, joined,
                   flipped_cells, loaded, io_idle, pre>>

(* events.send(TurnComplete { turn })?  (line 132)                          *)
SendTurnComplete ==
    /\ pc = "send_turn"
    /\ \/ /\ log' = Append(log, Entry("TurnComplete", turn, << >>, "", TRUE))
          /\ pc' = "turn_loop"
          /\ UNCHANGED result
       \/ Fail(Entry("TurnComplete", turn, << >>, "", FALSE))
    /\ UNCHANGED <<params, world, next_world, turn, thread_id, handles, joined,
                   flipped_cells, loaded, io_idle, pre>>

----------------------------------------------------------------------------
(* Finalisation (lines 135-166).                                            *)

(* The filter_map of lines 137-150 from index on.                           *)
RECURSIVE AliveFrom(_, _)
AliveFrom(w, idx) ==
    IF idx >= total_cells THEN << >>
    ELSE (IF w[idx] = "Alive"
          THEN << CellCoord(idx % width, idx \div width) >>
          ELSE << >>) \o AliveFrom(w, idx + 1)

alive_cells(w) == AliveFrom(w, 0)

(* events.send(FinalTurnComplete { turns, alive_cells })?  (lines 135-156)  *)
SendFinalTurnCompleteAt(from) ==
    /\ pc = from
    /\ \/ /\ log' = Append(log, Entry("FinalTurnComplete", turns, alive_cells(world), "", TRUE))
          /\ pc' = "check_idle"
          /\ UNCHANGED result
       \/ Fail(Entry("FinalTurnComplete", turns, alive_cells(world), "", FALSE))
    /\ UNCHANGED <<params, world, next_world, turn, thread_id, handles, joined,
                   flipped_cells, loaded, io_idle, pre>>

SendFinalTurnComplete == SendFinalTurnCompleteAt("final")

(* SendIoCheckIdle with line 159 left out: the answer is not waited for.    *)
SendIoCheckIdle_NoWait ==
    /\ pc = "check_idle"
    /\ \/ /\ log' = Append(log, Entry("IoCheckIdle", turns, << >>, "", TRUE))
          /\ pc' = "quitting"
          /\ UNCHANGED result
       \/ Fail(Entry("IoCheckIdle", turns, << >>, "", FALSE))
    /\ UNCHANGED <<params, world, next_world, turn, thread_id, handles, joined,
                   flipped_cells, loaded, io_idle, pre>>

(* io_command.send(IoCommand::IoCheckIdle)?  (line 158)                     *)
SendIoCheckIdle ==
    /\ pc = "check_idle"
    /\ \/ /\ log' = Append(log, Entry("IoCheckIdle", turns, << >>, "", TRUE))
          /\ pc' = "recv_idle"
          /\ UNCHANGED result
       \/ Fail(Entry("IoCheckIdle", turns, << >>, "", FALSE))
    /\ UNCHANGED <<params, world, next_world, turn, thread_id, handles, joined,
                   flipped_cells, loaded, io_idle, pre>>

(* The io thread, asked whether it is idle: it answers, it drops its end of *)
(* the channel, or it keeps its end and never answers.                      *)
IoThread ==
    /\ pc = "recv_idle"
    /\ io_idle = "empty"
    /\ io_idle' \in {"value", "closed", "silent"}
    /\ UNCHANGED <<params, world, next_world, turn, thread_id, handles, joined,
                   flipped_cells, loaded, pc, result, log, pre>>

(* RecvIdle with the error of recv() dropped.                               *)
RecvIdle_IgnoreError ==
    /\ pc = "recv_idle"
    /\ \/ /\ io_idle = "value"
          /\ io_idle' = "empty"
          /\ log' = Append(log, Entry("recv_idle", turns, << >>, "", TRUE))
       \/ /\ io_idle = "closed"
          /\ log' = Append(log, Entry("recv_idle", turns, << >>, "", FALSE))
          /\ UNCHANGED io_idle
    /\ pc' = "quitting"
    /\ UNCHANGED <<params, world, next_world, turn, thread_id, handles, joined,
                   flipped_cells, loaded, result, pre>>

(* io_idle.recv()?  (line 159): blocks while the channel is open and empty. *)
RecvIdle ==
    /\ pc = "recv_idle"
    /\ \/ /\ io_idle = "value"
          /\ io_idle' = "empty"
          /\ log' = Append(log, Entry("recv_idle", turns, << >>, "", TRUE))
          /\ pc' = "quitting"
          /\ UNCHANGED result
       \/ /\ io_idle = "closed"
          /\ Fail(Entry("recv_idle", turns, << >>, "", FALSE))
          /\ UNCHANGED io_idle
    /\ UNCHANGED <<params, world, next_world, turn, thread_id, handles, joined,
                   flipped_cells, loaded, pre>>

(* events.send(StateChange { turns, Quitting })?; Ok(())  (lines 161-166)   *)
SendQuitting ==
    /\ pc = "quitting"
    /\ \/ /\ log' = Append(log, Entry("StateChange", turns, << >>, "Quitting", TRUE))
          /\ pc' = "done"
          /\ result' = "Ok"
       \/ Fail(Entry("StateChange", turns, << >>, "Quitting", FALSE))
    /\ UNCHANGED <<params, world, next_world, turn, thread_id, handles, joined,
                   flipped_cells, loaded, io_idle, pre>>

----------------------------------------------------------------------------

Distributor ==
    \/ SendIoInput
    \/ ReadCell
    \/ SendExecuting
    \/ TurnLoop
    \/ Spawn
    \/ Join
    \/ Diff
    \/ SendCellsFlipped
    \/ SendTurnComplete
    \/ SendFinalTurnComplete
    \/ SendIoCheckIdle
    \/ RecvIdle
    \/ SendQuitting

Next ==
    \/ Distributor
    \/ \E id \in 0 .. (threads - 1) : Worker(id)
    \/ IoThread

Spec == Init /\ [][Next]_vars

----------------------------------------------------------------------------
(* The row partition on its own: the distributor at line 61 of its first    *)
(* turn on an all-Dead grid one cell wide, and the spawn loop run to its    *)
(* end before any thread is scheduled.                                      *)

PartitionLog ==
    << Entry("IoInput", 0, << >>, "", TRUE) >>
    \o [i \in 1 .. total_cells |-> Entry("recv_input", 0, << >>, "Dead", TRUE)]
    \o << Entry("StateChange", 0, << >>, "Executing", TRUE) >>

InitPartition ==
    /\ width = 1
    /\ height \in 1 .. MaxPartHeight
    /\ turns = 1
    /\ threads \in 1 .. MaxPartThreads
    /\ world = DeadGrid
    /\ next_world = DeadGrid
    /\ turn = 1
    /\ thread_id = 0
    /\ handles = [i \in 0 .. (threads - 1) |-> NoThread]
    /\ joined = 0
    /\ flipped_cells = << >>
    /\ loaded = total_cells
    /\ pc = "spawn"
    /\ result = "running"
    /\ io_idle = "empty"
    /\ log = PartitionLog
    /\ pre = DeadGrid

SpecPartition == InitPartition /\ [][Spawn]_vars

----------------------------------------------------------------------------
(* Runs on chosen figures: the distributor at line 51, the input stream     *)
(* having delivered a grid whose Alive cells are a 2x2 block, a horizontal  *)
(* row of three, or a single cell, placed anywhere in the grid.             *)

(* The grid of w x h cells, row-major, whose Alive cells are those of S.    *)
GridOf(w, h, S) ==
    [i \in 0 .. (w * h - 1) |->
        IF CellCoord(i % w, i \div w) \in S THEN "Alive" ELSE "Dead"]

Block(x, y) == {CellCoord(x, y), CellCoord(x + 1, y),
                CellCoord(x, y + 1), CellCoord(x + 1, y + 1)}

RowOfThree(x, y) == {CellCoord(x - 1, y), CellCoord(x, y), CellCoord(x + 1, y)}

ColumnOfThree(x, y) == {CellCoord(x, y - 1), CellCoord(x, y), CellCoord(x, y + 1)}

Figures(w, h) ==
    {Block(x, y) : x \in 0 .. (w - 2), y \in 0 .. (h - 2)}
    \cup {RowOfThree(x, y) : x \in 1 .. (w - 2), y \in 0 .. (h - 1)}
    \cup {{CellCoord(x, y)} : x \in 0 .. (w - 1), y \in 0 .. (h - 1)}

(* The log of lines 31-42 when every recv() delivered its cell of w.        *)
LoadedLog(w) ==
    << Entry("IoInput", 0, << >>, "", TRUE) >>
    \o [i \in 1 .. total_cells |-> Entry("recv_input", 0, << >>, w[i - 1], TRUE)]

InitPattern ==
    /\ width \in 1 .. MaxPatSide
    /\ height \in 1 .. MaxPatSide
    /\ turns = PatTurns
    /\ threads \in 1 .. MaxPatThreads
    /\ \E S \in Figures(width, height) : world = GridOf(width, height, S)
    /\ next_world = DeadGrid
    /\ turn = 0
    /\ thread_id = 0
    /\ handles = [i \in 0 .. (threads - 1) |-> NoThread]
    /\ joined = 0
    /\ flipped_cells = << >>
    /\ loaded = total_cells
    /\ pc = "executing"
    /\ result = "running"
    /\ io_idle = "empty"
    /\ log = LoadedLog(world)
    /\ pre = DeadGrid

(* The distributor from line 51 on.                                         *)
Loaded ==
    \/ SendExecuting
    \/ TurnLoop
    \/ Spawn
    \/ Join
    \/ Diff
    \/ SendCellsFlipped
    \/ SendTurnComplete
    \/ SendFinalTurnComplete
    \/ SendIoCheckIdle
    \/ RecvIdle
    \/ SendQuitting

NextLoaded ==
    \/ Loaded
    \/ \E id \in 0 .. (threads - 1) : Worker(id)
    \/ IoThread

SpecPattern == InitPattern /\ [][NextLoaded]_vars

----------------------------------------------------------------------------
(* The two grid locks.  lock() is a step of its own, enabled when no guard  *)
(* of that mutex is alive; the access and the drop of the guard are the     *)
(* step after it.  The distributor's guards are read off its position: the  *)
(* guard of line 112, then also that of line 113, both dropped at line 123; *)
(* the guard of line 136, dropped at line 151.  next_world is a new mutex   *)
(* each turn (line 59), shared only with the threads of that turn.          *)

Main == 0 - 1

MainHolds ==
    CASE pc = "diff_world" -> {"world"}
      [] pc = "diff_both" -> {"world", "next_world"}
      [] pc = "final_locked" -> {"world"}
      [] OTHER -> {}

Holders(lock) ==
    {id \in DOMAIN handles : lock \in handles[id].holds}
    \cup (IF lock \in MainHolds THEN {Main} ELSE {})

(* The lock the thread's next statement takes.                              *)
Wanted(t) == IF t.at = "write" THEN "next_world" ELSE "world"

(* A thread about to call lock(): lines 80, 186, 99.                        *)
Requesting(id) ==
    /\ handles[id].st = "run"
    /\ handles[id].at \in {"cell", "neighbor", "write"}
    /\ handles[id].at = "cell" => handles[id].y < handles[id].end_row

(* lock() of lines 80, 186, 99 returning.                                   *)
WorkerLock(id) ==
    LET t == handles[id]
    IN  /\ Requesting(id)
        /\ Holders(Wanted(t)) = {}
        /\ handles' = [handles EXCEPT ![id] =
                [t EXCEPT !.at = IF t.at = "write" THEN "write_locked"
                                 ELSE IF t.at = "cell" THEN "cell_locked"
                                 ELSE "neighbor_locked",
                          !.holds = t.holds \cup {Wanted(t)}]]
        /\ UNCHANGED <<params, world, next_world, turn, thread_id, joined,
                       flipped_cells, loaded, pc, result, io_idle, log, pre>>

LockingWorker(id) ==
    \/ WorkerLock(id)
    \/ WorkerReadCellAt(id, "cell_locked", {"world"})
    \/ WorkerReadNeighborAt(id, "neighbor_locked", {"world"})
    \/ WorkerWriteAt(id, "write_locked", {"next_world"})
    \/ WorkerExit(id)

(* world.lock() of line 112 returning.                                      *)
DiffLockWorld ==
    /\ pc = "diff"
    /\ Holders("world") = {}
    /\ pc' = "diff_world"
    /\ UNCHANGED <<params, world, next_world, turn, thread_id, handles, joined,
                   flipped_cells, loaded, result, io_idle, log, pre>>

(* next_world.lock() of line 113 returning.                                 *)
DiffLockNext ==
    /\ pc = "diff_world"
    /\ Holders("next_world") = {}
    /\ pc' = "diff_both"
    /\ UNCHANGED <<params, world, next_world, turn, thread_id, handles, joined,
                   flipped_cells, loaded, result, io_idle, log, pre>>

(* world.lock() of line 136 returning.                                      *)
FinalLock ==
    /\ pc = "final"
    /\ Holders("world") = {}
    /\ pc' = "final_locked"
    /\ UNCHANGED <<params, world, next_world, turn, thread_id, handles, joined,
                   flipped_cells, loaded, result, io_idle, log, pre>>

LockingDistributor ==
    \/ SendExecuting
    \/ TurnLoop
    \/ Spawn
    \/ Join
    \/ DiffLockWorld
    \/ DiffLockNext
    \/ DiffAt("diff_both")
    \/ SendCellsFlipped
    \/ SendTurnComplete
    \/ FinalLock
    \/ SendFinalTurnCompleteAt("final_locked")
    \/ SendIoCheckIdle
    \/ RecvIdle
    \/ SendQuitting

LockDims == {d \in (1 .. MaxLockCells) \X (1 .. MaxLockCells) :
               d[1] * d[2] <= MaxLockCells}

InitLocks ==
    /\ \E d \in LockDims : width = d[1] /\ height = d[2]
    /\ turns = LockTurns
    /\ threads \in 1 .. MaxLockThreads
    /\ world \in [Indices -> CellValue]
    /\ next_world = DeadGrid
    /\ turn = 0
    /\ thread_id = 0
    /\ handles = [i \in 0 .. (threads - 1) |-> NoThread]
    /\ joined = 0
    /\ flipped_cells = << >>
    /\ loaded = total_cells
    /\ pc = "executing"
    /\ result = "running"
    /\ io_idle = "empty"
    /\ log = LoadedLog(world)
    /\ pre = DeadGrid

NextLocks ==
    \/ LockingDistributor
    \/ \E id \in 0 .. (threads - 1) : LockingWorker(id)
    \/ IoThread

(* The scheduler never stops while some thread can take a step.  (Fairness  *)
(* to each thread separately is a stronger assumption: what holds under     *)
(* this one holds under that.)                                              *)
Fairness == WF_vars(NextLocks)

SpecLocks == InitLocks /\ [][NextLocks]_vars /\ Fairness

----------------------------------------------------------------------------
(* Reading the history.                                                     *)

EventOps == {"StateChange", "CellsFlipped", "TurnComplete", "FinalTurnComplete"}

(* Where the log holds a delivered op carrying turn t.                      *)
Delivered(op, t) ==
    {i \in DOMAIN log : log[i].op = op /\ log[i].turn = t /\ log[i].ok}

(* Where the log holds an op, delivered or not.                             *)
Tried(op) == {i \in DOMAIN log : log[i].op = op}

Failed(op) == {i \in DOMAIN log : log[i].op = op /\ ~log[i].ok}

Coords == {CellCoord(x, y) : x \in 0 .. (width - 1), y \in 0 .. (height - 1)}

CoordSet(cells) == {cells[i] : i \in DOMAIN cells}

NoDuplicate(cells) == Cardinality(CoordSet(cells)) = Len(cells)

AliveSet(w) == {c \in Coords : w[c.y * width + c.x] = "Alive"}

(* The grid the input stream delivered, once all of it is read.             *)
InputGrid == [i \in Indices |-> log[i + 2].state]

(* Rows the thread of handle id was given.                                  *)
RangeSize(id) == handles[id].end_row - handles[id].start_row

----------------------------------------------------------------------------
(* C4: for every height >= 1 and threads >= 1, the row ranges the spawn     *)
(* loop hands out are well formed (start <= end <= height), begin at row    *)
(* 0, each begin where the previous one ended, end at height once the last  *)
(* thread is spawned, and differ in size by at most one row, the longer     *)
(* ones being exactly those of the first height % threads threads.          *)
C4_RowPartition ==
    /\ \A i \in 0 .. (thread_id - 1) :
          /\ handles[i].st # "none"
          /\ 0 <= handles[i].start_row
          /\ handles[i].start_row <= handles[i].end_row
          /\ handles[i].end_row <= height
          /\ i = 0 => handles[i].start_row = 0
          /\ i > 0 => handles[i].start_row = handles[i - 1].end_row
          /\ RangeSize(i) = (height \div threads)
                            + (IF i < height % threads THEN 1 ELSE 0)
    /\ \A i, j \in 0 .. (thread_id - 1) :
          /\ RangeSize(i) - RangeSize(j) \in {-1, 0, 1}
          /\ i < j => RangeSize(i) >= RangeSize(j)
    /\ thread_id = threads => handles[threads - 1].end_row = height

(* C4's case: every thread spawned, the rows not dividing evenly.           *)
C4_Witness ==
    /\ thread_id = threads
    /\ threads > 1
    /\ height > threads
    /\ height % threads # 0
    /\ RangeSize(0) = RangeSize(threads - 1) + 1

(* C4's other case: more threads than rows, the surplus given no row.       *)
C4_WitnessSurplus ==
    /\ thread_id = threads
    /\ threads > height
    /\ RangeSize(threads - 1) = 0
    /\ RangeSize(0) = 1

----------------------------------------------------------------------------
(* The run with threads = 1: its one thread has rows 0 .. height, nothing   *)
(* else runs until it is joined, and the diff then leaves in world what the *)
(* thread wrote.                                                            *)

OneThreadTurn(w) ==
    Merged(w, [index \in Indices |->
                 new_cell(w[index],
                          count_alive_neighbors(w, index % width, index \div width))])

RECURSIVE OneThreadRun(_, _)
OneThreadRun(w, n) == IF n = 0 THEN w ELSE OneThreadTurn(OneThreadRun(w, n - 1))

(* The distributor has diffed turn `turn` and not begun the next.           *)
AfterDiff == pc \in {"send_flipped", "send_turn"}

(* C1: for every grid, turns and thread count, dividing the rows evenly or  *)
(* not, and whatever the interleaving of the threads, the grid after each   *)
(* turn is the grid the run with threads = 1 has after that turn, and       *)
(* FinalTurnComplete carries the alive cells of that run's last grid.       *)
C1_SameAsOneThread ==
    /\ AfterDiff => world = OneThreadRun(InputGrid, turn)
    /\ pc = "check_idle" =>
          /\ log[Len(log)].op = "FinalTurnComplete"
          /\ log[Len(log)].cells = alive_cells(OneThreadRun(InputGrid, turns))

(* C1's case: two threads, three rows, two turns done, cells alive at the   *)
(* end in the last row, and the grid not the one that was read.             *)
C1_Witness ==
    /\ pc = "check_idle"
    /\ threads = 2
    /\ height = 3
    /\ turns = 2
    /\ \E c \in AliveSet(world) : c.y = 2
    /\ world # InputGrid
    /\ log[Len(log)].cells # << >>

----------------------------------------------------------------------------
(* The rule as the specification words it.                                  *)

Abs(n) == IF n < 0 THEN -n ELSE n

(* The cells of the grid adjacent to c: none outside it, no wraparound.     *)
Neighbors(c) ==
    {d \in Coords : d # c /\ Abs(d.x - c.x) <= 1 /\ Abs(d.y - c.y) <= 1}

AliveNeighbors(w, c) ==
    Cardinality({d \in Neighbors(c) : w[d.y * width + d.x] = "Alive"})

LifeRule(w, c) ==
    \/ w[c.y * width + c.x] = "Alive" /\ AliveNeighbors(w, c) \in {2, 3}
    \/ w[c.y * width + c.x] = "Dead" /\ AliveNeighbors(w, c) = 3

(* C3: after the diff of a turn, every cell of world is Alive exactly when  *)
(* the rule, applied to the grid as it was when the turn began, says so:    *)
(* Alive with 2 or 3 alive neighbours, or Dead with exactly 3, neighbours   *)
(* outside the grid not counted.                                            *)
C3_LifeRule ==
    AfterDiff =>
        \A c \in Coords : (world[c.y * width + c.x] = "Alive") <=> LifeRule(pre, c)

(* C3's case: two threads, and in one turn a birth, a survival and a death *)
(* of too many neighbours.                                                  *)
C3_Witness ==
    /\ AfterDiff
    /\ threads = 2
    /\ \E c \in Coords : pre[c.y * width + c.x] = "Dead" /\ world[c.y * width + c.x] = "Alive"
    /\ \E c \in Coords : pre[c.y * width + c.x] = "Alive" /\ world[c.y * width + c.x] = "Alive"
    /\ \E c \in Coords : pre[c.y * width + c.x] = "Alive" /\ AliveNeighbors(pre, c) > 3
                         /\ world[c.y * width + c.x] = "Dead"

(* C3's case of too few neighbours: a cell alive with at most one alive     *)
(* neighbour has died, on the far side of the grid from a cell that lived.  *)
C3_WitnessFew ==
    /\ AfterDiff
    /\ threads = 2
    /\ \E c \in Coords : pre[c.y * width + c.x] = "Alive" /\ AliveNeighbors(pre, c) < 2
                         /\ world[c.y * width + c.x] = "Dead"
    /\ \E c \in Coords : pre[c.y * width + c.x] = "Alive" /\ world[c.y * width + c.x] = "Alive"

----------------------------------------------------------------------------
(* The cells whose value the turn changed.                                  *)
Changed == {c \in Coords : pre[c.y * width + c.x] # world[c.y * width + c.x]}

(* C5: the cells CellsFlipped(t) carries are exactly the cells whose value  *)
(* before turn t differs from the value after it, each once; it is sent     *)
(* exactly when there is such a cell, and TurnComplete(t) follows whether   *)
(* or not it was.                                                           *)
C5_FlippedIsDiff ==
    /\ AfterDiff =>
          /\ CoordSet(flipped_cells) = Changed
          /\ NoDuplicate(flipped_cells)
    /\ pc = "send_flipped" => Changed # {}
    /\ pc = "send_turn" =>
          /\ Delivered("CellsFlipped", turn) # {} <=> Changed # {}
          /\ Changed # {} =>
                /\ log[Len(log)] = Entry("CellsFlipped", turn, flipped_cells, "", TRUE)
                /\ Delivered("CellsFlipped", turn) = {Len(log)}
          /\ Tried("CellsFlipped") \cap {i \in DOMAIN log : log[i].turn = turn}
                = Delivered("CellsFlipped", turn)
    /\ (pc = "turn_loop" /\ turn >= 1) =>
          /\ log[Len(log)] = Entry("TurnComplete", turn, << >>, "", TRUE)
          /\ Delivered("CellsFlipped", turn) # {} <=> Changed # {}
          /\ Changed # {} =>
                /\ Delivered("CellsFlipped", turn) = {Len(log) - 1}
                /\ CoordSet(log[Len(log) - 1].cells) = Changed
                /\ NoDuplicate(log[Len(log) - 1].cells)

(* C5's case: a turn that changed nothing has sent TurnComplete alone,      *)
(* after a turn that changed cells.                                         *)
C5_Witness ==
    /\ pc = "turn_loop"
    /\ turn = 2
    /\ threads = 2
    /\ Changed = {}
    /\ Delivered("CellsFlipped", 2) = {}
    /\ Delivered("CellsFlipped", 1) # {}
    /\ Delivered("TurnComplete", 2) # {}

----------------------------------------------------------------------------
IsTurnComplete(e) == e.op = "TurnComplete" /\ e.ok

(* The TurnComplete events delivered, in the order they were sent.          *)
TurnCompletes == SelectSeq(log, IsTurnComplete)

(* C2: when a run has ended, the TurnComplete events it sent carry 1, 2,   *)
(* ... in that order, none skipped or repeated, exactly `turns` of them if  *)
(* the run completed; for each turn t at most one CellsFlipped(t) was sent, *)
(* after TurnComplete(t-1) and before TurnComplete(t).  (The log only       *)
(* grows: what holds of it at the end held of it all along.)                *)
C2_TurnEvents ==
    pc = "done" =>
        /\ \A i \in DOMAIN TurnCompletes : TurnCompletes[i].turn = i
        /\ Len(TurnCompletes) <= turns
        /\ result = "Ok" => Len(TurnCompletes) = turns
        /\ \A t \in 1 .. turns : Cardinality(Delivered("CellsFlipped", t)) <= 1
        /\ \A i \in DOMAIN log :
              (log[i].op = "CellsFlipped" /\ log[i].ok) =>
                  LET t == log[i].turn
                  IN  /\ t \in 1 .. turns
                      /\ t > 1 => \E j \in Delivered("TurnComplete", t - 1) : j < i
                      /\ \A j \in Delivered("TurnComplete", t) : i < j
                      /\ \A u \in 1 .. turns : \A j \in Delivered("TurnComplete", u) :
                            j < i => u < t
                      /\ result = "Ok" => Delivered("TurnComplete", t) # {}

(* C2's case: a completed run of two turns, each with its CellsFlipped.     *)
C2_Witness ==
    /\ result = "Ok"
    /\ turns = 2
    /\ threads = 2
    /\ Delivered("CellsFlipped", 1) # {}
    /\ Delivered("CellsFlipped", 2) # {}
    /\ Len(TurnCompletes) = 2

----------------------------------------------------------------------------
(* C6: a run that completes has, in this order, sent IoInput, received      *)
(* width * height cells, sent StateChange(0, Executing) once, sent the      *)
(* events of the turns, sent FinalTurnComplete once with turns and exactly  *)
(* the cells alive in the grid after the last turn, sent IoCheckIdle,       *)
(* received the idle acknowledgment, and sent StateChange(turns, Quitting)  *)
(* once, last.                                                              *)
C6_RunOrder ==
    result = "Ok" =>
        LET n == Len(log)
            tc == total_cells
        IN  /\ n >= tc + 6
            /\ log[1] = Entry("IoInput", 0, << >>, "", TRUE)
            /\ \A i \in 2 .. (tc + 1) : log[i].op = "recv_input" /\ log[i].ok
            /\ log[tc + 2] = Entry("StateChange", 0, << >>, "Executing", TRUE)
            /\ \A i \in (tc + 3) .. (n - 4) :
                  log[i].op \in {"CellsFlipped", "TurnComplete"} /\ log[i].ok
            /\ log[n - 3].op = "FinalTurnComplete"
            /\ log[n - 3].ok
            /\ log[n - 3].turn = turns
            /\ CoordSet(log[n - 3].cells) = AliveSet(world)
            /\ NoDuplicate(log[n - 3].cells)
            /\ IF turns = 0 THEN world = InputGrid
               ELSE turn = turns
                    /\ \A c \in Coords :
                          (world[c.y * width + c.x] = "Alive") <=> LifeRule(pre, c)
            /\ log[n - 2] = Entry("IoCheckIdle", turns, << >>, "", TRUE)
            /\ log[n - 1] = Entry("recv_idle", turns, << >>, "", TRUE)
            /\ log[n] = Entry("StateChange", turns, << >>, "Quitting", TRUE)

(* C6's case: a completed run of two turns that flipped cells and ends with *)
(* cells alive.                                                             *)
C6_Witness ==
    /\ result = "Ok"
    /\ turns = 2
    /\ threads = 2
    /\ Delivered("CellsFlipped", 2) # {}
    /\ AliveSet(world) # {}

----------------------------------------------------------------------------
(* C7: with turns = 0 no TurnComplete and no CellsFlipped is sent, no       *)
(* thread is spawned, and FinalTurnComplete carries 0 and exactly the cells *)
(* alive in the grid that was read.                                         *)
C7_ZeroTurns ==
    turns = 0 =>
        /\ Tried("TurnComplete") = {}
        /\ Tried("CellsFlipped") = {}
        /\ \A id \in DOMAIN handles : handles[id].st = "none"
        /\ turn = 0
        /\ \A i \in Tried("FinalTurnComplete") :
              /\ log[i].turn = 0
              /\ CoordSet(log[i].cells) = AliveSet(InputGrid)
              /\ NoDuplicate(log[i].cells)
        /\ result = "Ok" => Delivered("FinalTurnComplete", 0) # {}

(* C7's case: a completed run of no turn on a grid a turn would change.     *)
C7_Witness ==
    /\ turns = 0
    /\ result = "Ok"
    /\ threads = 2
    /\ AliveSet(InputGrid) # {}
    /\ OneThreadTurn(InputGrid) # InputGrid
    /\ \E i \in Delivered("FinalTurnComplete", 0) : log[i].cells # << >>

----------------------------------------------------------------------------
(* C8: if the input stream fails before width * height cells are read, the  *)
(* distributor returns an error and has sent no event: no StateChange, no   *)
(* turn is run, and IoCheckIdle is not sent.                                *)
C8_InputUnavailable ==
    (loaded < total_cells /\ Failed("recv_input") # {}) =>
        /\ result = "Err"
        /\ pc = "done"
        /\ Failed("recv_input") = {Len(log)}
        /\ \A i \in DOMAIN log : log[i].op \notin EventOps \cup {"IoCheckIdle"}
        /\ turn = 0
        /\ \A id \in DOMAIN handles : handles[id].st = "none"

(* C8's case: the stream failed after some cells, one of them Alive.        *)
C8_Witness ==
    /\ Failed("recv_input") # {}
    /\ loaded >= 2
    /\ \E i \in 0 .. (loaded - 1) : world[i] = "Alive"
    /\ result = "Err"

----------------------------------------------------------------------------
(* C9: if an event could not be delivered, the run has ended with an       *)
(* error and the failed send is the last thing the distributor did: no      *)
(* event, no command and no turn after it, no thread left running; and when *)
(* it was CellsFlipped(t) that failed, TurnComplete(t) was never sent.      *)
C9_EventChannelClosed ==
    /\ pc = "done" =>
          \A i \in DOMAIN log :
              (log[i].op \in EventOps /\ ~log[i].ok) =>
                  /\ i = Len(log)
                  /\ result = "Err"
                  /\ \A id \in DOMAIN handles : handles[id].st \in {"none", "joined"}
                  /\ log[i].turn = turn
                  /\ log[i].op = "CellsFlipped" =>
                        \A j \in Tried("TurnComplete") : log[j].turn # log[i].turn
    /\ result = "Err" => pc = "done"
    /\ (result = "running" /\ log # << >>) => log[Len(log)].ok

(* C9's case: CellsFlipped(2) could not be delivered, after a first turn    *)
(* that was reported.                                                       *)
C9_Witness ==
    /\ \E i \in Failed("CellsFlipped") : log[i].turn = 2
    /\ Delivered("TurnComplete", 1) # {}
    /\ threads = 2
    /\ result = "Err"

----------------------------------------------------------------------------
(* StateChange(Quitting) has not been sent, nor tried.                      *)
NoQuitting == \A i \in Tried("StateChange") : log[i].state # "Quitting"

(* C10 as stated: once IoCheckIdle is sent and the acknowledgment cannot    *)
(* arrive any more (the channel is closed, or stays open and silent), the   *)
(* run ends as a failure, so it has failed or its next step can be taken,   *)
(* and Quitting is never sent.                                              *)
C10_Original ==
    (Delivered("IoCheckIdle", turns) # {} /\ io_idle \in {"closed", "silent"}) =>
        /\ result = "Err" \/ ENABLED Distributor
        /\ NoQuitting

(* C10 as amended: if the idle channel is closed before it carried an       *)
(* acknowledgment, the receive fails, the distributor returns an error and  *)
(* Quitting is never sent; if the channel stays open and silent, the        *)
(* distributor stays blocked in the receive: Quitting is never sent, and no *)
(* failure is returned either.                                              *)
C10_IdleSignalLost ==
    /\ io_idle = "closed" =>
          /\ NoQuitting
          /\ \/ pc = "recv_idle" /\ result = "running" /\ ENABLED RecvIdle
             \/ /\ pc = "done"
                /\ result = "Err"
                /\ log[Len(log)] = Entry("recv_idle", turns, << >>, "", FALSE)
    /\ io_idle = "silent" =>
          /\ NoQuitting
          /\ pc = "recv_idle"
          /\ result = "running"
          /\ ~ ENABLED Next
    /\ pc = "done" =>
          /\ Failed("recv_idle") # {} => io_idle = "closed"
          /\ \A i \in Tried("StateChange") :
                log[i].state = "Quitting" => Delivered("recv_idle", turns) = {i - 1}

(* C10's case: the idle channel was closed and the run has failed, after    *)
(* the turns and FinalTurnComplete.                                         *)
C10_Witness ==
    /\ Failed("recv_idle") # {}
    /\ result = "Err"
    /\ turns = 2
    /\ Delivered("FinalTurnComplete", 2) # {}

(* C10's other case: the idle channel is open and silent, and nothing moves. *)
C10_WitnessSilent ==
    /\ io_idle = "silent"
    /\ turns = 2
    /\ ~ ENABLED Next

----------------------------------------------------------------------------
(* C11: a turn that begins with every cell Dead ends with every cell Dead,  *)
(* flips no cell, sends no CellsFlipped and still sends TurnComplete; a run *)
(* whose input grid is all Dead therefore ends all Dead, whatever the       *)
(* width, height, thread count and number of turns, with no CellsFlipped    *)
(* tried and an empty FinalTurnComplete.                                    *)
C11_DeadStaysDead ==
    /\ (AfterDiff /\ pre = DeadGrid) =>
          /\ world = DeadGrid
          /\ flipped_cells = << >>
          /\ pc = "send_turn"
    /\ (pc = "turn_loop" /\ turn >= 1 /\ pre = DeadGrid) =>
          /\ world = DeadGrid
          /\ log[Len(log)] = Entry("TurnComplete", turn, << >>, "", TRUE)
          /\ log[Len(log) - 1].op # "CellsFlipped"
    /\ (pc = "check_idle" /\ InputGrid = DeadGrid) =>
          /\ world = DeadGrid
          /\ Tried("CellsFlipped") = {}
          /\ Len(TurnCompletes) = turns
          /\ log[Len(log)].cells = << >>

(* C11's case: an all-Dead input of at least four cells run for two turns   *)
(* on two threads, both turns reported complete.                            *)
C11_Witness ==
    /\ pc = "check_idle"
    /\ InputGrid = DeadGrid
    /\ total_cells >= 4
    /\ threads = 2
    /\ turns = 2
    /\ Len(TurnCompletes) = 2

----------------------------------------------------------------------------
(* Figures.  world changes only in the diff, so between two diffs it is the *)
(* grid after Generations turns.                                            *)

Generations == IF pc \in {"spawn", "join", "diff"} THEN turn - 1 ELSE turn

(* The input stream has delivered the whole grid.                           *)
InputRead == loaded = total_cells /\ Len(log) > total_cells

(* C12: when the Alive cells of the input grid are exactly a 2x2 block,     *)
(* wherever it lies (interior, against an edge, in a corner), then for      *)
(* every thread count world is that grid in every state of the run, so      *)
(* after every number of turns, and no CellsFlipped is ever tried.          *)
C12_BlockStill ==
    (/\ InputRead
     /\ \E c \in AliveSet(InputGrid) : AliveSet(InputGrid) = Block(c.x, c.y))
    => /\ world = InputGrid
       /\ flipped_cells = << >>
       /\ Tried("CellsFlipped") = {}

(* C12's case: a block with Dead cells all around it, two turns complete    *)
(* on two threads.                                                          *)
C12_Witness ==
    /\ pc = "check_idle"
    /\ width = 4
    /\ height = 4
    /\ threads = 2
    /\ turn = 2
    /\ AliveSet(InputGrid) = Block(1, 1)
    /\ AliveSet(world) = Block(1, 1)
    /\ Len(TurnCompletes) = 2

(* C12's other case: the block in the bottom right corner of a 3x3 grid.    *)
C12_WitnessCorner ==
    /\ pc = "check_idle"
    /\ width = 3
    /\ height = 3
    /\ threads = 2
    /\ turn = 2
    /\ AliveSet(world) = Block(1, 1)

(* C13: when the Alive cells of the input grid are exactly the row          *)
(* (x-1,y), (x,y), (x+1,y) and the 3x3 neighbourhood of (x,y) is inside the *)
(* grid, the Alive cells after turn 1 are exactly (x,y-1), (x,y), (x,y+1)   *)
(* and after turn 2 exactly the row again, for every thread count; when the *)
(* row lies on the top or bottom edge, the Alive cells after turn 2 are not *)
(* the row.                                                                 *)
C13_RowOfThree ==
    InputRead =>
      \A c \in AliveSet(InputGrid) :
        AliveSet(InputGrid) = RowOfThree(c.x, c.y) =>
          /\ (c.y >= 1 /\ c.y + 1 < height) =>
                /\ Generations = 1 => AliveSet(world) = ColumnOfThree(c.x, c.y)
                /\ Generations = 2 => AliveSet(world) = RowOfThree(c.x, c.y)
          /\ ((c.y = 0 \/ c.y + 1 = height) /\ Generations = 2) =>
                AliveSet(world) # RowOfThree(c.x, c.y)

(* C13's case: the row in the middle of a 4x4 grid, back after two turns on *)
(* two threads.                                                             *)
C13_Witness ==
    /\ pc = "check_idle"
    /\ width = 4
    /\ height = 4
    /\ threads = 2
    /\ turn = 2
    /\ AliveSet(InputGrid) = RowOfThree(2, 1)
    /\ AliveSet(pre) = ColumnOfThree(2, 1)
    /\ AliveSet(world) = RowOfThree(2, 1)

(* C13's other case: the row on the top edge, gone after two turns.         *)
C13_WitnessEdge ==
    /\ pc = "check_idle"
    /\ height >= 2
    /\ threads = 2
    /\ turn = 2
    /\ AliveSet(InputGrid) = RowOfThree(1, 0)
    /\ AliveSet(pre) = {CellCoord(1, 0), CellCoord(1, 1)}
    /\ AliveSet(world) = {}

(* C14: when exactly one cell of the input grid is Alive, wherever it lies, *)
(* every cell is Dead after one turn, the diff of turn 1 flips exactly that *)
(* coordinate, CellsFlipped(1) carries it, and no other CellsFlipped is     *)
(* tried.                                                                   *)
C14_SingleCell ==
    InputRead =>
      \A c \in AliveSet(InputGrid) :
        AliveSet(InputGrid) = {c} =>
          /\ Generations >= 1 => world = DeadGrid
          /\ (turn = 1 /\ AfterDiff) => flipped_cells = << c >>
          /\ (turn = 1 /\ pc = "diff") => next_world = DeadGrid
          /\ (turn = 1 /\ pc \in {"send_turn", "turn_loop"}) =>
                Delivered("CellsFlipped", 1) # {}
          /\ \A i \in Tried("CellsFlipped") :
                log[i].turn = 1 /\ log[i].cells = << c >>

(* C14's case: the one Alive cell in the middle of a 3x3 grid, turn 1       *)
(* reported on two threads.                                                 *)
C14_Witness ==
    /\ pc = "turn_loop"
    /\ turn = 1
    /\ width = 3
    /\ height = 3
    /\ threads = 2
    /\ AliveSet(InputGrid) = {CellCoord(1, 1)}
    /\ world = DeadGrid
    /\ log[Len(log) - 1] = Entry("CellsFlipped", 1, << CellCoord(1, 1) >>, "", TRUE)

----------------------------------------------------------------------------
(* The stores of one turn into next_world.                                  *)

(* How often thread id has stored to index.                                 *)
Stores(id, index) ==
    Cardinality({k \in DOMAIN handles[id].wrote : handles[id].wrote[k] = index})

Writers(index) == {id \in DOMAIN handles : Stores(id, index) > 0}

(* C15: when the last thread of a turn is joined, whatever the             *)
(* interleaving was, every index in [0, width * height) of next_world has   *)
(* been stored to exactly once in the turn and by exactly one thread, the   *)
(* one whose row range holds the index's row: no two threads stored to the  *)
(* same index, and no Dead of the fresh next_world reaches the diff         *)
(* unwritten.  (wrote keeps every store of the turn until the diff.)        *)
C15_WrittenOnce ==
    pc = "diff" =>
       \A index \in Indices :
          \E id \in DOMAIN handles :
             /\ Writers(index) = {id}
             /\ Stores(id, index) = 1
             /\ handles[id].start_row <= index \div width
             /\ index \div width < handles[id].end_row
             /\ handles[id].start_row = start_row(id)
             /\ handles[id].end_row = end_row(id)

(* C15's case: three rows on two threads, both joined, each having stored   *)
(* to its own rows, and a cell of each range Alive in next_world.           *)
C15_Witness ==
    /\ pc = "diff"
    /\ threads = 2
    /\ height = 3
    /\ width = 2
    /\ Len(handles[0].wrote) = 4
    /\ Len(handles[1].wrote) = 2
    /\ next_world[0] = "Alive"
    /\ next_world[5] = "Alive"

----------------------------------------------------------------------------
(* What the threads of one turn read.                                       *)

Running == {id \in DOMAIN handles : handles[id].st = "run"}

(* The Alive cells of w among the neighbours of (x, y) that come before the *)
(* k-th in the order of the loops of lines 177-178.                         *)
CountBefore(w, x, y, k) ==
    Cardinality({j \in 1 .. (k - 1) :
                   /\ InGrid(x + Offsets[j][1], y + Offsets[j][2])
                   /\ w[NeighborIndex(x, y, j)] = "Alive"})

(* C16: while a thread of turn t runs, world is the grid it was when turn t *)
(* began, and what the thread holds of it (its own cell, and its count over *)
(* the neighbours read so far, each read under its own acquisition of the   *)
(* lock) is what that grid holds, in every interleaving; world changes only *)
(* in a step of the input loop or of the diff.                              *)
C16_ReadsTurnStart ==
    /\ [](\A id \in Running :
            /\ world = pre
            /\ handles[id].at # "cell" =>
                  /\ handles[id].cell = pre[handles[id].y * width + handles[id].x]
                  /\ handles[id].count =
                        CountBefore(pre, handles[id].x, handles[id].y, handles[id].k))
    /\ [][world' # world => pc \in {"read", "diff"}]_vars

(* C16's case: turn 2, the grid changed by turn 1, one thread still running *)
(* with two Alive neighbours counted while the other has already stored a   *)
(* birth to next_world.                                                     *)
C16_Witness ==
    /\ turn = 2
    /\ threads = 2
    /\ world # InputGrid
    /\ handles[0].st = "run"
    /\ handles[0].at = "neighbor"
    /\ handles[0].count = 2
    /\ handles[1].wrote # << >>
    /\ \E index \in Indices : next_world[index] = "Alive" /\ world[index] = "Dead"

----------------------------------------------------------------------------
(* C17: a thread that is spawned and not yet joined exists only while the   *)
(* distributor is in the spawn loop or the join loop of the turn the thread *)
(* was spawned in: the diff begins with every thread of the turn joined, no *)
(* thread is alive during the diff or during any send, no thread of turn    *)
(* t + 1 is spawned before TurnComplete(t) was delivered, and threads of    *)
(* two turns are never alive together.                                      *)
C17_TurnBarrier ==
    /\ \A id \in DOMAIN handles :
          handles[id].st \in {"run", "done"} =>
             /\ pc \in {"spawn", "join"}
             /\ handles[id].turn = turn
             /\ id < thread_id
             /\ id >= joined
    /\ pc \in {"spawn", "join"} =>
          /\ \A id \in DOMAIN handles :
                /\ id < joined => handles[id].st = "joined"
                /\ id >= thread_id => handles[id].st = "none"
          /\ log[Len(log)] =
                IF turn = 1
                THEN Entry("StateChange", 0, << >>, "Executing", TRUE)
                ELSE Entry("TurnComplete", turn - 1, << >>, "", TRUE)
    /\ pc = "diff" =>
          \A id \in DOMAIN handles :
             handles[id].st = "joined" /\ handles[id].turn = turn

(* C17's case: turn 2, the first thread joined, the second still running    *)
(* with stores made, TurnComplete(1) the last thing sent.                   *)
C17_Witness ==
    /\ pc = "join"
    /\ turn = 2
    /\ threads = 2
    /\ joined = 1
    /\ handles[0].st = "joined"
    /\ handles[1].st = "run"
    /\ handles[1].turn = 2
    /\ handles[1].wrote # << >>
    /\ log[Len(log)].op = "TurnComplete"

----------------------------------------------------------------------------
(* The value a failed run returns, and the phase it failed in.              *)

ReturnedError == ErrorValue(log[Len(log)])

Phase(e) ==
    CASE e.op \in {"IoInput", "recv_input"} -> <<"input", 0>>
      [] e.op = "StateChange" /\ e.state = "Executing" -> <<"start", 0>>
      [] e.op \in {"CellsFlipped", "TurnComplete"} -> <<"turn", e.turn>>
      [] e.op = "FinalTurnComplete" -> <<"final", 0>>
      [] e.op \in {"IoCheckIdle", "recv_idle"} -> <<"idle", 0>>
      [] OTHER -> <<"quit", 0>>

(* The operations a run with these parameters can fail at.                  *)
FailurePoints ==
    { Entry("IoInput", 0, << >>, "", FALSE),
      Entry("recv_input", 0, << >>, "", FALSE),
      Entry("recv_input", 0, << >>, "None", FALSE),
      Entry("StateChange", 0, << >>, "Executing", FALSE),
      Entry("IoCheckIdle", turns, << >>, "", FALSE),
      Entry("recv_idle", turns, << >>, "", FALSE),
      Entry("StateChange", turns, << >>, "Quitting", FALSE) }
    \cup {Entry("TurnComplete", t, << >>, "", FALSE) : t \in 1 .. turns}
    \cup {Entry("CellsFlipped", t, << c >>, "", FALSE) : t \in 1 .. turns, c \in Coords}
    \cup {Entry("FinalTurnComplete", turns, cs, "", FALSE) :
             cs \in {<< >>} \cup {<< c >> : c \in Coords}}

(* C18: a run that fails fails once, at the operation it tried last, and    *)
(* the value it returns identifies the phase of that operation: no          *)
(* operation of another phase, failing, would have returned the same value. *)
C18_PhaseIdentified ==
    result = "Err" =>
       /\ pc = "done"
       /\ ~log[Len(log)].ok
       /\ \A i \in 1 .. (Len(log) - 1) : log[i].ok
       /\ \A q \in FailurePoints :
             ErrorValue(q) = ReturnedError => Phase(q) = Phase(log[Len(log)])

(* What the code does keep of C18: one failure, nothing tried after it,     *)
(* and every failed send distinguishable from every other failure by the    *)
(* message its SendError carries.                                           *)
C18_SendsIdentified ==
    result = "Err" =>
       /\ pc = "done"
       /\ ~log[Len(log)].ok
       /\ \A i \in 1 .. (Len(log) - 1) : log[i].ok
       /\ ReturnedError.kind # "RecvError" =>
             \A q \in FailurePoints :
                ErrorValue(q) = ReturnedError => Phase(q) = Phase(log[Len(log)])

----------------------------------------------------------------------------
(* An observer of the events: it starts from the Alive cells of the input   *)
(* grid and toggles each coordinate of each CellsFlipped it is delivered.   *)

RECURSIVE Toggled(_, _, _)
Toggled(S, cells, k) ==
    IF k > Len(cells) THEN S
    ELSE Toggled(IF cells[k] \in S THEN S \ {cells[k]} ELSE S \cup {cells[k]},
                 cells, k + 1)

RECURSIVE ObservedUpTo(_)
ObservedUpTo(i) ==
    IF i = 0 THEN AliveSet(InputGrid)
    ELSE IF log[i].op = "CellsFlipped" /\ log[i].ok
         THEN Toggled(ObservedUpTo(i - 1), log[i].cells, 1)
         ELSE ObservedUpTo(i - 1)

Observed == ObservedUpTo(Len(log))

(* C20: once TurnComplete(t) is delivered the observer holds exactly the    *)
(* Alive cells of world after turn t; when FinalTurnComplete is delivered   *)
(* it holds exactly the cells that event carries; and every coordinate any  *)
(* message carries has 0 <= x < width and 0 <= y < height.                  *)
C20_ObserverAgrees ==
    /\ (pc = "turn_loop" /\ turn >= 1) =>
          /\ log[Len(log)] = Entry("TurnComplete", turn, << >>, "", TRUE)
          /\ Observed = AliveSet(world)
    /\ pc = "check_idle" =>
          /\ log[Len(log)].op = "FinalTurnComplete"
          /\ Observed = CoordSet(log[Len(log)].cells)
          /\ Observed = AliveSet(world)
          /\ NoDuplicate(log[Len(log)].cells)
    /\ log # << >> =>
          \A k \in DOMAIN log[Len(log)].cells :
             /\ log[Len(log)].cells[k].x \in 0 .. (width - 1)
             /\ log[Len(log)].cells[k].y \in 0 .. (height - 1)

(* C20's case: two turns on two threads, cells flipped in both, and cells   *)
(* Alive at the end that are not the cells of the input grid.               *)
C20_Witness ==
    /\ pc = "check_idle"
    /\ threads = 2
    /\ turn = 2
    /\ Delivered("CellsFlipped", 1) # {}
    /\ Delivered("CellsFlipped", 2) # {}
    /\ Observed # {}
    /\ Observed # AliveSet(InputGrid)

(* C20's other case: a cell flipped in turn 1 and again in turn 2.          *)
C20_WitnessTwice ==
    /\ pc = "check_idle"
    /\ threads = 2
    /\ turn = 2
    /\ \E i \in Delivered("CellsFlipped", 1), j \in Delivered("CellsFlipped", 2) :
          CoordSet(log[i].cells) \cap CoordSet(log[j].cells) # {}

----------------------------------------------------------------------------
(* No thread has more than one guard alive, none calls lock() with a guard  *)
(* alive, the distributor has a guard alive only when every thread of the   *)
(* turn is joined, and no mutex has two guards.                             *)
LockDiscipline ==
    /\ \A id \in DOMAIN handles :
          /\ Cardinality(handles[id].holds) <= 1
          /\ Requesting(id) => handles[id].holds = {}
          /\ handles[id].holds # {} => handles[id].st = "run"
    /\ MainHolds # {} =>
          \A id \in DOMAIN handles : handles[id].st = "joined"
    /\ MainHolds = {"world", "next_world"} => pc = "diff_both"
    /\ \A lock \in {"world", "next_world"} : Cardinality(Holders(lock)) <= 1

(* The run has returned, or waits on an idle channel that stays silent.     *)
Ended == pc = "done" \/ (pc = "recv_idle" /\ io_idle = "silent")

(* C19: the grid locks never deadlock: the lock discipline holds in every   *)
(* state and, unless the run has ended, some step can be taken; under fair  *)
(* scheduling every turn that begins spawning reaches the diff behind its   *)
(* join, and every run ends: it returns (Ok, or Err when a collaborator     *)
(* refused a message) or the io thread never acknowledges the idle check.   *)
C19_LocksAndTermination ==
    /\ [](LockDiscipline /\ (Ended \/ ENABLED NextLocks))
    /\ (pc = "spawn") ~> (pc = "diff")
    /\ <>Ended

(* C19's case: one thread has the guard of world alive while the other is   *)
(* about to call lock() on it.                                              *)
C19_Witness ==
    /\ threads = 2
    /\ pc = "join"
    /\ handles[0].holds = {"world"}
    /\ handles[1].st = "run"
    /\ handles[1].at = "neighbor"
    /\ handles[1].holds = {}
    /\ ~ENABLED WorkerLock(1)

(* C19's other case: the distributor with both guards alive.                *)
C19_WitnessDiff ==
    /\ pc = "diff_both"
    /\ threads = 2
    /\ turn = 2
    /\ next_world # world

====
